---- MODULE Spec2Model ----
(***************************************************************************)
(* Whitelist transfer hook (programs/hello-world-transfer-hook).           *)
(*                                                                         *)
(* State: the Whitelist account (seeds ["whitelist"]), the                 *)
(* ExtraAccountMetaList accounts (seeds ["extra-account-metas", mint]),    *)
(* a record of the last instruction with its outcome, and two history      *)
(* variables that remember completed add / remove operations.              *)
(* One action per instruction; every instruction is one atomic step (an    *)
(* instruction that fails leaves every account as it was).                 *)
(*                                                                         *)
(* Spec is the program: every instruction, from the state in which no      *)
(* account exists; the hook is invoked with accounts that fit each other.  *)
(* SpecHook is the hook alone, applied once to every combination of        *)
(* accounts, fitting or not, for every value of the Whitelist account.     *)
(*                                                                         *)
(* Outcomes.  "Ok" is Ok(()).  The two panics of transfer_hook.rs are the  *)
(* outcomes "NotTransferring" (panic "TransferHook: Not transferring") and *)
(* "NotWhitelisted" (panic "TransferHook: Owner is not whitelisted").  A   *)
(* token account that does not decode is "MalformedAccount": the Err that  *)
(* Anchor's deserialization of an InterfaceAccount<TokenAccount> returns,  *)
(* and the Err returned with ? from the unpack / get_extension_mut of      *)
(* check_is_transferring.  The failure of an init constraint on an account *)
(* that is already there is "AlreadyInitialized".  The other failures of   *)
(* the #[derive(Accounts)] validation keep Anchor's names.                 *)
(***************************************************************************)
EXTENDS Integers, Sequences, FiniteSets, TLC

\* ------------------------------------------------------------------ bounds
MaxLen == 2
MaxBump == 1
MaxAmount == 2

Owners == {"A", "B"}
Mints == {"mint1", "mint2"}
Signers == {"admin", "mallory"}
Bumps == 0..MaxBump
Amounts == {0, MaxAmount}

VARIABLES
    offCurve,     \* offCurve[b]: hashing seeds ["whitelist"] with bump b gives an address off the curve
    whitelist,    \* the Whitelist account: initialized, address (Vec<Pubkey>), bump (u8)
    metaList,     \* metaList[mint]: the ExtraAccountMetaList account of that mint: initialized, space
    removed,      \* history: removed[o] is "no", or, when remove(o) completed with no add(o) since,
                  \* how often o was in the list before that remove: "absent", "unique", "duplicated"
    roundTrip,    \* history: a completed add(o), then directly a completed remove(o), with the list before the add
    last          \* the last instruction: its name, inputs and outcome

vars == <<offCurve, whitelist, metaList, removed, roundTrip, last>>

\* ----------------------------------------------------------------- helpers

\* Mutant of Contains: the scan stops one element short.
ContainsStopsShort(v, x) == \E i \in 1..(Len(v) - 1) : v[i] = x

\* Vec::contains: a linear scan of the vector.
Contains(v, x) == \E i \in 1..Len(v) : v[i] = x

Count(v, x) == Cardinality({i \in 1..Len(v) : v[i] = x})

\* The seeds of the Whitelist account, [b"whitelist"]: the bytes of the one seed.
WhitelistSeed == <<119, 104, 105, 116, 101, 108, 105, 115, 116>>

\* Pubkey::find_program_address for seeds ["whitelist"]: the bumps are tried
\* from the highest down, and the first that is off the curve is the bump.
find_program_address ==
    CHOOSE b \in Bumps : offCurve[b] /\ \A c \in Bumps : offCurve[c] => c <= b

\* Pubkey::create_program_address for seeds ["whitelist"] and a given bump:
\* an address (named by the seed and the bump that produced it) or an error.
create_program_address(bump) ==
    IF bump \in Bumps /\ offCurve[bump]
    THEN [ok |-> TRUE, seed |-> WhitelistSeed, bump |-> bump]
    ELSE [ok |-> FALSE, seed |-> WhitelistSeed, bump |-> bump]

\* The address the Whitelist account is created at: init with seeds and a
\* bare `bump` uses find_program_address.
WhitelistPda == create_program_address(find_program_address)

NoHook ==
    [source_token |-> [kind |-> "none", mint |-> "none", owner |-> "none", transferring |-> FALSE],
     mint |-> "none",
     destination_token |-> [kind |-> "none", mint |-> "none", owner |-> "none"],
     owner |-> "none",
     extra_account_meta_list |-> "none",
     whitelist |-> "none",
     amount |-> 0]

NoSource == NoHook.source_token

Last(op, result, signer, arg, changed) ==
    [op |-> op, result |-> result, signer |-> signer, arg |-> arg, changed |-> changed,
     hook |-> NoHook, source_after |-> NoSource]

NoRoundTrip == [stage |-> "none", owner |-> "none", before |-> <<>>]

Init ==
    /\ offCurve \in {f \in [Bumps -> BOOLEAN] : \E b \in Bumps : f[b]}
    /\ whitelist = [initialized |-> FALSE, address |-> <<>>, bump |-> 0]
    /\ metaList = [m \in Mints |-> [initialized |-> FALSE, space |-> 0]]
    /\ removed = [o \in Owners |-> "no"]
    /\ roundTrip = NoRoundTrip
    /\ last = Last("none", "Ok", "none", "none", FALSE)

\* ------------------------------------------------- initialize_whitelist.rs

\* The bump Anchor hands to the handler in InitializeWhitelistBumps.
InitializeWhitelistBumps == [whitelist |-> find_program_address]

\* Mutant of initialize_whitelist: the bump stored is not the one derived.
initialize_whitelist_zero_bump(bumps) ==
    [initialized |-> TRUE, address |-> <<>>, bump |-> 0]

\* InitializeWhitelist::initialize_whitelist: set_inner(Whitelist { address: vec![], bump }).
initialize_whitelist(bumps) ==
    [initialized |-> TRUE, address |-> <<>>, bump |-> bumps.whitelist]

\* Mutant of InitializeWhitelistAccounts: init_if_needed in place of init.
InitializeWhitelistAccountsIfNeeded(admin) == "Ok"

\* #[derive(Accounts)] InitializeWhitelist: admin is any signer; init fails
\* when the account at the seeds is already there.
InitializeWhitelistAccounts(admin) ==
    IF whitelist.initialized THEN "AlreadyInitialized" ELSE "Ok"

InitializeWhitelist(admin) ==
    LET v == InitializeWhitelistAccounts(admin) IN
    /\ whitelist' = IF v = "Ok" THEN initialize_whitelist(InitializeWhitelistBumps) ELSE whitelist
    /\ last' = Last("initialize_whitelist", v, admin, "none", whitelist' # whitelist)
    /\ roundTrip' = NoRoundTrip
    /\ UNCHANGED <<offCurve, metaList, removed>>

\* ----------------------------------------------- init_extra_account_meta.rs

\* Seed::Literal { bytes }.
Literal(bytes) == [kind |-> "Literal", bytes |-> bytes]

\* Seed::pack: a literal is its discriminator 1, its length, its bytes.
PackSeed(seed) == <<1, Len(seed.bytes)>> \o seed.bytes

RECURSIVE PackSeeds(_)
PackSeeds(seeds) ==
    IF seeds = <<>> THEN <<>> ELSE PackSeed(Head(seeds)) \o PackSeeds(Tail(seeds))

\* Seed::pack_into_address_config: the packed seeds, zero-filled to 32 bytes.
pack_into_address_config(seeds) ==
    LET packed == PackSeeds(seeds) IN
    [i \in 1..32 |-> IF i <= Len(packed) THEN packed[i] ELSE 0]

\* Seed::unpack_address_config: seeds are read until the discriminator 0.
RECURSIVE UnpackFrom(_, _)
UnpackFrom(config, i) ==
    IF i > Len(config) \/ config[i] # 1 \/ i + 1 > Len(config) THEN <<>>
    ELSE LET n == config[i + 1] IN
         IF i + 1 + n > Len(config) THEN <<>>
         ELSE <<Literal(SubSeq(config, i + 2, i + 1 + n))>> \o UnpackFrom(config, i + 2 + n)

unpack_address_config(config) == UnpackFrom(config, 1)

\* ExtraAccountMeta::new_with_seeds: discriminator 1 is an address derived
\* from seeds with the executing program.
new_with_seeds(seeds, is_signer, is_writable) ==
    [discriminator |-> 1,
     address_config |-> pack_into_address_config(seeds),
     is_signer |-> is_signer,
     is_writable |-> is_writable]

\* Mutant of extra_account_metas: the entry is marked writable.
extra_account_metas_writable ==
    << new_with_seeds(<<Literal(<<119, 104, 105, 116, 101, 108, 105, 115, 116>>)>>, FALSE, TRUE) >>

\* InitializeExtraAccountMetaList::extra_account_metas: one entry, its seed
\* the literal b"whitelist".to_vec().
extra_account_metas ==
    << new_with_seeds(<<Literal(<<119, 104, 105, 116, 101, 108, 105, 115, 116>>)>>,
                      FALSE,    \* is_signer
                      FALSE) >> \* is_writable

\* ExtraAccountMetaList::size_of: the TLV header (an 8-byte discriminator and
\* a 4-byte length), the 4-byte count, and 35 bytes for each entry.
size_of(num_items) == 8 + 4 + 4 + num_items * 35

\* #[derive(Accounts)] InitializeExtraAccountMetaList: init with
\* seeds ["extra-account-metas", mint] and space size_of(extra_account_metas().len()).
InitializeExtraAccountMetaListAccounts(payer, mint) ==
    IF metaList[mint].initialized THEN "AlreadyInitialized" ELSE "Ok"

InitializeExtraAccountMetaListSpace == size_of(Len(extra_account_metas))

InitializeExtraAccountMetaList(payer, mint) ==
    LET v == InitializeExtraAccountMetaListAccounts(payer, mint) IN
    /\ metaList' = IF v = "Ok"
                   THEN [metaList EXCEPT ![mint] =
                            [initialized |-> TRUE, space |-> InitializeExtraAccountMetaListSpace]]
                   ELSE metaList
    /\ last' = Last("initialize_extra_account_meta_list", v, payer, mint, metaList' # metaList)
    /\ roundTrip' = NoRoundTrip
    /\ UNCHANGED <<offCurve, whitelist, removed>>

\* ---------------------------------------------------------- transfer_hook.rs

\* The token accounts an invocation may pass as source_token: an account that
\* is no token account, a token account without the TransferHookAccount
\* extension, and a token account with it.
SourceTokens ==
    {[kind |-> "not_token_account", mint |-> "none", owner |-> "none", transferring |-> FALSE]}
    \cup [kind : {"no_extension"}, mint : Mints, owner : Owners, transferring : {FALSE}]
    \cup [kind : {"token_account"}, mint : Mints, owner : Owners, transferring : BOOLEAN]

DestinationTokens ==
    {[kind |-> "not_token_account", mint |-> "none", owner |-> "none"]}
    \cup [kind : {"token_account"}, mint : Mints, owner : Owners]

\* The mint the hook is invoked for (the instruction treats all mints alike).
HookMint == "mint1"

\* The accounts and the argument of one invocation of the hook.  The
\* extra_account_meta_list passed is named by the mint whose seeds give its
\* address; the whitelist passed is the account at the ["whitelist"] address
\* or any other account.
AllHookInputs ==
    [source_token : SourceTokens,
     mint : {HookMint},
     destination_token : DestinationTokens,
     owner : Owners,
     extra_account_meta_list : Mints,
     whitelist : {"whitelist_pda", "foreign"},
     amount : Amounts]

\* The accounts of i that do not fit the others.
Faults(i) ==
    {f \in {"source_token", "source_mint", "source_owner", "destination_token",
            "destination_mint", "extra_account_meta_list", "whitelist"} :
        \/ f = "source_token" /\ i.source_token.kind = "not_token_account"
        \/ f = "source_mint" /\ i.source_token.kind # "not_token_account"
                             /\ i.source_token.mint # i.mint
        \/ f = "source_owner" /\ i.source_token.kind # "not_token_account"
                              /\ i.source_token.owner # i.owner
        \/ f = "destination_token" /\ i.destination_token.kind = "not_token_account"
        \/ f = "destination_mint" /\ i.destination_token.kind # "not_token_account"
                                  /\ i.destination_token.mint # i.mint
        \/ f = "extra_account_meta_list" /\ i.extra_account_meta_list # i.mint
        \/ f = "whitelist" /\ i.whitelist # "whitelist_pda"}

\* The invocations whose accounts fit each other, as the token program issues
\* them in a transfer (transferring set) and as a direct caller may (not set).
HookInputs ==
    {[source_token |-> s, mint |-> HookMint, destination_token |-> d, owner |-> s.owner,
      extra_account_meta_list |-> HookMint, whitelist |-> "whitelist_pda", amount |-> a] :
        s \in {t \in SourceTokens : t.kind # "not_token_account" /\ t.mint = HookMint},
        d \in {t \in DestinationTokens : t.kind = "token_account" /\ t.mint = HookMint},
        a \in Amounts}

\* #[derive(Accounts)] TransferHook: the accounts are deserialized in the
\* order of the fields, then the constraints are checked in that order.
TransferHookAccounts(i, wl) ==
    IF i.source_token.kind = "not_token_account" THEN "MalformedAccount"
    ELSE IF i.destination_token.kind = "not_token_account" THEN "MalformedAccount"
    ELSE IF i.whitelist # "whitelist_pda" THEN "AccountOwnedByWrongProgram"
    ELSE IF ~wl.initialized THEN "AccountNotInitialized"
    ELSE IF i.source_token.mint # i.mint THEN "ConstraintTokenMint"
    ELSE IF i.source_token.owner # i.owner THEN "ConstraintTokenOwner"
    ELSE IF i.destination_token.mint # i.mint THEN "ConstraintTokenMint"
    ELSE IF i.extra_account_meta_list # i.mint THEN "ConstraintSeeds"
    ELSE IF create_program_address(wl.bump) # WhitelistPda THEN "ConstraintSeeds"
    ELSE "Ok"

\* Mutant of check_is_transferring: a missing extension is read as a flag
\* that is not set.
check_is_transferring_default_flag(source_token) ==
    IF source_token.kind = "not_token_account"
    THEN [result |-> "MalformedAccount", source_token |-> source_token]
    ELSE IF source_token.kind = "no_extension" \/ ~source_token.transferring
    THEN [result |-> "NotTransferring", source_token |-> source_token]
    ELSE [result |-> "Ok", source_token |-> source_token]

\* Mutant of check_is_transferring: the flag is cleared through the mutable
\* borrow once it has been read.
check_is_transferring_clears_flag(source_token) ==
    IF source_token.kind # "token_account"
    THEN [result |-> "MalformedAccount", source_token |-> source_token]
    ELSE IF ~source_token.transferring
    THEN [result |-> "NotTransferring", source_token |-> source_token]
    ELSE [result |-> "Ok", source_token |-> [source_token EXCEPT !.transferring = FALSE]]

\* TransferHook::check_is_transferring: the outcome, and the source account's
\* data as the call leaves it.
check_is_transferring(source_token) ==
    IF source_token.kind = "not_token_account"
    THEN [result |-> "MalformedAccount", source_token |-> source_token]   \* unpack(..)?
    ELSE IF source_token.kind = "no_extension"
    THEN [result |-> "MalformedAccount", source_token |-> source_token]   \* get_extension_mut(..)?
    ELSE IF ~source_token.transferring
    THEN [result |-> "NotTransferring", source_token |-> source_token]    \* panic!
    ELSE [result |-> "Ok", source_token |-> source_token]

\* Mutant of transfer_hook: the membership check comes first.
transfer_hook_membership_first(i, wl) ==
    IF ~Contains(wl.address, i.owner)
    THEN [result |-> "NotWhitelisted", source_token |-> i.source_token]
    ELSE check_is_transferring(i.source_token)

\* Mutant of transfer_hook: the membership check is left out.
transfer_hook_no_membership(i, wl) == check_is_transferring(i.source_token)

\* TransferHook::transfer_hook.
transfer_hook(i, wl) ==
    LET c == check_is_transferring(i.source_token) IN
    IF c.result # "Ok" THEN c
    ELSE IF ~Contains(wl.address, i.owner)
    THEN [result |-> "NotWhitelisted", source_token |-> c.source_token]   \* panic!
    ELSE [result |-> "Ok", source_token |-> c.source_token]

\* The whole instruction: the validation of the accounts, then the handler.
\* A failed instruction is rolled back.
TransferHookOutcome(i, wl) ==
    LET v == TransferHookAccounts(i, wl) IN
    IF v # "Ok" THEN [result |-> v, source_token |-> i.source_token]
    ELSE LET r == transfer_hook(i, wl) IN
         IF r.result # "Ok" THEN [result |-> r.result, source_token |-> i.source_token]
         ELSE r

\* What the instruction leaves in the Whitelist account: Anchor writes an
\* account back on exit only when it is marked mut, and whitelist is not.
TransferHookExit(wl) == wl

TransferHook(i) ==
    LET r == TransferHookOutcome(i, whitelist) IN
    /\ whitelist' = IF r.result = "Ok" THEN TransferHookExit(whitelist) ELSE whitelist
    /\ metaList' = metaList
    /\ last' = [op |-> "transfer_hook", result |-> r.result, signer |-> "none",
                arg |-> i.owner,
                changed |-> (whitelist' # whitelist \/ metaList' # metaList),
                hook |-> i,
                source_after |-> r.source_token]
    /\ roundTrip' = NoRoundTrip
    /\ UNCHANGED <<offCurve, removed>>

\* ------------------------------------------------- whitelist_operations.rs
\* (declared in mod.rs; add and remove are taken from their specification)

\* The authority the admin operations check the signer against.
Authority == "admin"

AdminCheck(signer) == IF signer # Authority THEN "Unauthorized" ELSE "Ok"

RemoveFirst(v, x) ==
    IF ~Contains(v, x) THEN v
    ELSE LET p == CHOOSE i \in 1..Len(v) : v[i] = x /\ \A j \in 1..(i - 1) : v[j] # x
         IN  SubSeq(v, 1, p - 1) \o SubSeq(v, p + 1, Len(v))

RemoveAll(v, x) == SelectSeq(v, LAMBDA y : y # x)

\* add(owner) appends owner.  What it does with an owner that is already in
\* the list is left open: it appends it again, or succeeds and changes
\* nothing, or fails.
AddPolicies == {"append", "ignore", "reject"}

add(v, owner, policy) ==
    IF ~Contains(v, owner) \/ policy = "append"
    THEN [result |-> "Ok", address |-> Append(v, owner)]
    ELSE IF policy = "ignore"
    THEN [result |-> "Ok", address |-> v]
    ELSE [result |-> "AlreadyWhitelisted", address |-> v]

\* Mutant of remove: the shortened vector is not written back.
remove_not_written(v, owner, policy) == [result |-> "Ok", address |-> v]

\* remove(owner) removes the first, or all, of the matching entries.  What it
\* does with an owner that is not in the list is left open: it succeeds and
\* changes nothing, or fails.
RemovePolicies == {"first", "all"} \X {"ignore", "reject"}

remove(v, owner, policy) ==
    IF Contains(v, owner)
    THEN [result |-> "Ok",
          address |-> IF policy[1] = "first" THEN RemoveFirst(v, owner) ELSE RemoveAll(v, owner)]
    ELSE IF policy[2] = "ignore"
    THEN [result |-> "Ok", address |-> v]
    ELSE [result |-> "NotFound", address |-> v]

\* The accounts of an admin operation: the signer is checked against the
\* authority, and the Whitelist account must be there.
WhitelistOperationsAccounts(signer) ==
    IF AdminCheck(signer) # "Ok" THEN AdminCheck(signer)
    ELSE IF ~whitelist.initialized THEN "AccountNotInitialized"
    ELSE "Ok"

AddToWhitelist(signer, owner, policy) ==
    LET v == WhitelistOperationsAccounts(signer)
        r == add(whitelist.address, owner, policy)
        ok == v = "Ok" /\ r.result = "Ok"
    IN
    /\ ok => Len(r.address) <= MaxLen
    /\ whitelist' = IF ok THEN [whitelist EXCEPT !.address = r.address] ELSE whitelist
    /\ last' = Last("add", IF v # "Ok" THEN v ELSE r.result, signer, owner, whitelist' # whitelist)
    /\ removed' = IF ok THEN [removed EXCEPT ![owner] = "no"] ELSE removed
    /\ roundTrip' = IF ok THEN [stage |-> "added", owner |-> owner, before |-> whitelist.address]
                    ELSE NoRoundTrip
    /\ UNCHANGED <<offCurve, metaList>>

RemoveFromWhitelist(signer, owner, policy) ==
    LET v == WhitelistOperationsAccounts(signer)
        r == remove(whitelist.address, owner, policy)
        ok == v = "Ok" /\ r.result = "Ok"
    IN
    /\ whitelist' = IF ok THEN [whitelist EXCEPT !.address = r.address] ELSE whitelist
    /\ last' = Last("remove", IF v # "Ok" THEN v ELSE r.result, signer, owner, whitelist' # whitelist)
    /\ removed' = IF ok
                  THEN [removed EXCEPT ![owner] =
                           IF Count(whitelist.address, owner) = 0 THEN "absent"
                           ELSE IF Count(whitelist.address, owner) = 1 THEN "unique"
                           ELSE "duplicated"]
                  ELSE removed
    /\ roundTrip' = IF ok /\ roundTrip.stage = "added" /\ roundTrip.owner = owner
                    THEN [roundTrip EXCEPT !.stage = "removed"]
                    ELSE NoRoundTrip
    /\ UNCHANGED <<offCurve, metaList>>

Next ==
    \/ \E s \in Signers : InitializeWhitelist(s)
    \/ \E s \in Signers, m \in Mints : InitializeExtraAccountMetaList(s, m)
    \/ \E s \in Signers, o \in Owners, p \in AddPolicies : AddToWhitelist(s, o, p)
    \/ \E s \in Signers, o \in Owners, p \in RemovePolicies : RemoveFromWhitelist(s, o, p)
    \/ \E i \in HookInputs : TransferHook(i)

Spec == Init /\ [][Next]_vars

\* ------------------------------------------- the hook, over all its inputs

\* The vectors of owners up to the bound.
RECURSIVE Vectors(_)
Vectors(n) ==
    IF n = 0 THEN {<<>>}
    ELSE LET shorter == Vectors(n - 1) IN
         shorter \cup {Append(v, o) : v \in {w \in shorter : Len(w) = n - 1}, o \in Owners}

\* transfer_hook is a function of its accounts: the Whitelist account is drawn
\* from the values the admin operations can leave (not created, or created by
\* initialize_whitelist and holding any vector), and every combination of
\* accounts is passed to it once.
InitHook ==
    /\ offCurve \in {f \in [Bumps -> BOOLEAN] : \E b \in Bumps : f[b]}
    /\ whitelist \in
         {[initialized |-> FALSE, address |-> <<>>, bump |-> 0]}
         \cup {[initialize_whitelist(InitializeWhitelistBumps) EXCEPT !.address = v] :
                  v \in Vectors(MaxLen)}
    /\ metaList = [m \in Mints |-> [initialized |-> FALSE, space |-> 0]]
    /\ removed = [o \in Owners |-> "no"]
    /\ roundTrip = NoRoundTrip
    /\ last = Last("none", "Ok", "none", "none", FALSE)

NextHook == \E i \in AllHookInputs : last.op = "none" /\ TransferHook(i)

SpecHook == InitHook /\ [][NextHook]_vars

\* ------------------------------------------------------------------ claims

Members(v) == {v[k] : k \in 1..Len(v)}

HookDone == last.op = "transfer_hook"

\* The accounts of the last invocation fit each other and the Whitelist
\* account is there: the validation has nothing to reject.
HookFits == whitelist.initialized /\ Faults(last.hook) = {}

\* C1: with the transferring flag of the source account set, the hook
\* succeeds when the owner is in the whitelist's vector and fails with
\* NotWhitelisted when it is not; there is no other outcome.
C1_TransferringDecidedByMembership ==
    (HookDone /\ HookFits /\ last.hook.source_token.transferring)
        => last.result = IF last.hook.owner \in Members(whitelist.address)
                         THEN "Ok" ELSE "NotWhitelisted"

C1_Witness ==
    /\ HookDone /\ HookFits /\ last.hook.source_token.transferring
    /\ last.result = "Ok"
    /\ Len(whitelist.address) = 2
    /\ whitelist.address[2] = last.hook.owner
    /\ whitelist.address[1] # last.hook.owner

\* C2: with a source token account whose transferring flag is not set, the
\* hook fails with NotTransferring; it never answers NotWhitelisted nor
\* succeeds, and its outcome is the same whatever the whitelist holds.
C2_NotTransferringBeforeMembership ==
    (HookDone /\ last.hook.source_token.kind = "token_account"
              /\ ~last.hook.source_token.transferring)
        => /\ last.result \notin {"NotWhitelisted", "Ok"}
           /\ HookFits => last.result = "NotTransferring"
           /\ \A v \in Vectors(MaxLen) :
                TransferHookOutcome(last.hook, [whitelist EXCEPT !.address = v]).result
                    = last.result

C2_Witness ==
    /\ HookDone /\ HookFits
    /\ last.hook.source_token.kind = "token_account"
    /\ ~last.hook.source_token.transferring
    /\ last.hook.owner \notin Members(whitelist.address)
    /\ last.result = "NotTransferring"

\* C9: a source account that is no token account, or that lacks the
\* transfer-hook extension, makes the hook fail with MalformedAccount, which
\* is not NotTransferring, before the membership check: such a call never
\* answers NotWhitelisted nor succeeds, whatever the owner and the whitelist.
C9_MalformedSource ==
    (HookDone /\ last.hook.source_token.kind \in {"not_token_account", "no_extension"})
        => /\ last.result \notin {"Ok", "NotWhitelisted", "NotTransferring"}
           /\ last.hook.source_token.kind = "not_token_account"
                => last.result = "MalformedAccount"
           /\ HookFits => last.result = "MalformedAccount"

C9_Witness ==
    /\ HookDone /\ HookFits
    /\ last.hook.source_token.kind = "no_extension"
    /\ last.hook.owner \in Members(whitelist.address)
    /\ last.result = "MalformedAccount"

DestinationFits(d, i) == d.kind = "token_account" /\ d.mint = i.mint

HookReadOnly ==
    /\ ~last.changed
    /\ last.source_after = last.hook.source_token

\* C10 as claimed: the hook changes nothing (the Whitelist account, the
\* ExtraAccountMetaList accounts, the source account's flag), and its
\* outcome depends neither on the amount nor on the destination account.
C10_OutcomeIgnoresDestination ==
    HookDone
        => /\ HookReadOnly
           /\ \A d \in DestinationTokens, a \in Amounts :
                TransferHookOutcome(
                    [last.hook EXCEPT !.destination_token = d, !.amount = a], whitelist).result
                    = last.result

\* C10 as amended: the hook changes nothing; its outcome does not depend on
\* the amount, and is the same for all destination accounts that are token
\* accounts of the mint passed (any other is rejected by the validation).
C10_ReadOnlyAmountIgnored ==
    HookDone
        => /\ HookReadOnly
           /\ \A a \in Amounts :
                TransferHookOutcome([last.hook EXCEPT !.amount = a], whitelist).result
                    = last.result
           /\ \A d \in DestinationTokens, a \in Amounts :
                (DestinationFits(d, last.hook) /\ DestinationFits(last.hook.destination_token, last.hook))
                    => TransferHookOutcome(
                          [last.hook EXCEPT !.destination_token = d, !.amount = a], whitelist).result
                          = last.result

C10_Witness ==
    /\ HookDone /\ HookFits
    /\ last.result = "Ok"
    /\ last.hook.source_token.transferring
    /\ last.source_after.transferring
    /\ last.hook.amount = MaxAmount
    /\ last.hook.destination_token.owner # last.hook.owner

\* C3 as claimed: once remove(A) has completed, and until an add(A)
\* completes, the hook for owner A with the flag set fails with
\* NotWhitelisted, also when A was in the list more than once.
C3_RemovedOwnerRejected ==
    (HookDone /\ last.hook.source_token.transferring /\ removed[last.hook.owner] # "no")
        => last.result = "NotWhitelisted"

\* C3 as amended: the same, when A was in the list at most once before the
\* remove.
C3_RemovedUniqueOwnerRejected ==
    (HookDone /\ last.hook.source_token.transferring
              /\ removed[last.hook.owner] \in {"absent", "unique"})
        => last.result = "NotWhitelisted"

C3_Witness ==
    /\ HookDone /\ last.hook.source_token.transferring
    /\ removed[last.hook.owner] = "unique"
    /\ whitelist.address # <<>>
    /\ last.result = "NotWhitelisted"

\* C4 as claimed: add(A) and then remove(A) leave the vector as it was
\* before the add, also when A was in it already.
C4_AddRemoveRoundTrip ==
    roundTrip.stage = "removed" => whitelist.address = roundTrip.before

\* C4 as amended: the same, when A was not in the vector before the add.
C4_AddRemoveRoundTripFresh ==
    (roundTrip.stage = "removed" /\ roundTrip.owner \notin Members(roundTrip.before))
        => whitelist.address = roundTrip.before

C4_Witness ==
    /\ roundTrip.stage = "removed"
    /\ roundTrip.owner \notin Members(roundTrip.before)
    /\ roundTrip.before # <<>>
    /\ last.op = "remove" /\ last.changed

\* The bump of the derivation from the seed: off the curve, and no higher
\* bump is.
CanonicalBump(b) ==
    /\ b \in Bumps /\ offCurve[b]
    /\ \A c \in Bumps : c > b => ~offCurve[c]

\* C5: a successful initialize_whitelist leaves an empty vector and the bump
\* of the derivation from the seed "whitelist"; the hook's seeds constraint,
\* with that same seed and the stored bump, accepts the account.
C5_InitializeStoresDerivedBump ==
    /\ (last.op = "initialize_whitelist" /\ last.result = "Ok")
          => /\ whitelist.initialized
             /\ whitelist.address = <<>>
             /\ CanonicalBump(whitelist.bump)
    /\ whitelist.initialized
          => /\ CanonicalBump(whitelist.bump)
             /\ \A i \in HookInputs : TransferHookAccounts(i, whitelist) = "Ok"

C5_Witness ==
    /\ last.op = "initialize_whitelist" /\ last.result = "Ok"
    /\ whitelist.bump < MaxBump
    /\ whitelist.address = <<>>

\* C6: the Whitelist account is created once: it stays, and an
\* initialize_whitelist that finds it fails with AlreadyInitialized and
\* leaves its vector and its bump as they were.
C6_InitializeOnce ==
    [][ whitelist.initialized
          => /\ whitelist'.initialized
             /\ last'.op = "initialize_whitelist"
                  => (last'.result = "AlreadyInitialized" /\ whitelist' = whitelist) ]_vars

C6_Witness ==
    /\ last.op = "initialize_whitelist"
    /\ last.result = "AlreadyInitialized"
    /\ Len(whitelist.address) = 2

\* C7 as claimed: initialize, add and remove by a signer that is not the
\* authority fail with Unauthorized and leave the Whitelist account as it was.
C7_AdminNeedsAuthority ==
    (last.op \in {"initialize_whitelist", "add", "remove"} /\ last.signer # Authority)
        => (last.result = "Unauthorized" /\ ~last.changed)

\* C8: extra_account_metas is one entry, derived from the literal seed
\* "whitelist" (the seed of the Whitelist account), neither signer nor
\* writable, whatever the mint and the state; the account that
\* initialize_extra_account_meta_list creates has the size of one entry.
C8_OneWhitelistEntry ==
    /\ Len(extra_account_metas) = 1
    /\ extra_account_metas[1].discriminator = 1
    /\ unpack_address_config(extra_account_metas[1].address_config) = <<Literal(WhitelistSeed)>>
    /\ ~extra_account_metas[1].is_signer
    /\ ~extra_account_metas[1].is_writable
    /\ \A m \in Mints : metaList[m].initialized => metaList[m].space = 16 + 35
    /\ (last.op = "initialize_extra_account_meta_list" /\ last.result = "Ok")
          => metaList[last.arg].initialized

C8_Witness ==
    /\ \A m \in Mints : metaList[m].initialized /\ metaList[m].space = size_of(1)
    /\ last.op = "initialize_extra_account_meta_list" /\ last.result = "Ok"
    /\ whitelist.address # <<>>
====
